---- MODULE Spec2Model ----
(***************************************************************************)
(* Model of src/transports/websocket/_websocket_factory.ts: the WebSocket  *)
(* factory (createCompatibleWebSocketSync, createCompatibleWebSocket), the *)
(* compatibility flag requiresWsPackage and the environment probe          *)
(* getWebSocketEnvironmentInfo.                                            *)
(*                                                                         *)
(* JavaScript values are tagged records.  Text that the code only passes   *)
(* on (urls, error messages) is a TLA+ string; text that the code takes    *)
(* apart (process.versions.node) is a sequence of one-character strings.   *)
(***************************************************************************)
EXTENDS Integers, Sequences, FiniteSets

VARIABLES
    env,    \* the ambient global: what globalThis.process holds
    last,   \* the record of the most recent call of an exported function
    prior   \* which function the call before it was, and whether it threw

vars == <<env, last, prior>>

\* Longest generated process.versions.node string.
MaxLen == 2

----------------------------------------------------------------------------
(* JavaScript values the probe reads *)

JSUndefined == [t |-> "undefined", s |-> <<>>, n |-> 0]
JSNull == [t |-> "null", s |-> <<>>, n |-> 0]
JSFalse == [t |-> "boolean", s |-> <<>>, n |-> 0]
JSString(s) == [t |-> "string", s |-> s, n |-> 0]
JSNumber(n) == [t |-> "number", s |-> <<>>, n |-> n]

\* The numbers parseInt yields: an integer or NaN.
NaN == [k |-> "NaN", n |-> 0]
IntValue(n) == [k |-> "int", n |-> n]
\* The null of `nodeMajorVersion: number | null`.
NullVersion == [k |-> "null", n |-> 0]

Digits == {"0", "1", "2", "3", "4", "5", "6", "7", "8", "9"}
WhiteSpace == {" "}

DigitValue(c) ==
    CASE c = "0" -> 0 [] c = "1" -> 1 [] c = "2" -> 2 [] c = "3" -> 3
      [] c = "4" -> 4 [] c = "5" -> 5 [] c = "6" -> 6 [] c = "7" -> 7
      [] c = "8" -> 8 [] c = "9" -> 9

\* ToBoolean of the value `typeof globalProcess !== "undefined" && ...` yields.
ToBoolean(v) ==
    CASE v.t = "undefined" -> FALSE
      [] v.t = "null" -> FALSE
      [] v.t = "boolean" -> v.n # 0
      [] v.t = "string" -> v.s # <<>>
      [] v.t = "number" -> v.n # 0

\* s.split(".")[0]: the text before the first ".", all of s when it has none.
SplitFirst(s) ==
    LET dots == {i \in 1..Len(s) : s[i] = "."}
    IN  IF dots = {} THEN s
        ELSE SubSeq(s, 1, (CHOOSE i \in dots : \A j \in dots : i <= j) - 1)

RECURSIVE DecimalValue(_)
DecimalValue(s) ==
    IF s = <<>> THEN 0
    ELSE 10 * DecimalValue(SubSeq(s, 1, Len(s) - 1)) + DigitValue(s[Len(s)])

RECURSIVE TrimStart(_)
TrimStart(s) ==
    IF s # <<>> /\ Head(s) \in WhiteSpace THEN TrimStart(Tail(s)) ELSE s

\* The longest prefix of s made of decimal digits.
DigitPrefix(s) ==
    LET stops == {i \in 1..Len(s) : s[i] \notin Digits}
    IN  IF stops = {} THEN s
        ELSE SubSeq(s, 1, (CHOOSE i \in stops : \A j \in stops : i <= j) - 1)

\* A parseInt that answers null, not NaN, for a text without a leading digit.
ParseIntNullOnFailure(s) ==
    LET t == TrimStart(s)
        neg == t # <<>> /\ Head(t) = "-"
        u == IF t # <<>> /\ Head(t) \in {"-", "+"} THEN Tail(t) ELSE t
        z == DigitPrefix(u)
    IN  IF z = <<>> THEN NullVersion
        ELSE IntValue(IF neg THEN 0 - DecimalValue(z) ELSE DecimalValue(z))

\* parseInt(s, 10): leading white space is skipped, one sign is read, then the
\* longest run of decimal digits; no digit at all gives NaN.
ParseInt(s) ==
    LET t == TrimStart(s)
        neg == t # <<>> /\ Head(t) = "-"
        u == IF t # <<>> /\ Head(t) \in {"-", "+"} THEN Tail(t) ELSE t
        z == DigitPrefix(u)
    IN  IF z = <<>> THEN NaN
        ELSE IntValue(IF neg THEN 0 - DecimalValue(z) ELSE DecimalValue(z))

----------------------------------------------------------------------------
(* The ambient environment: globalThis.process *)

Alphabet == {"1", "2", "v", ".", "-"}

StringsUpTo(n) == UNION {[1..k -> Alphabet] : k \in 0..n}

\* Version texts as hosts report them, and the malformed ones of the same form.
SampleVersions ==
    { <<"2", "0", ".", "1", ".", "0">>,
      <<"v", "2", "0", ".", "1", ".", "0">>,
      <<"a", "b", "c", ".", "1", ".", "2">>,
      <<" ", "1", "8", ".", "0">> }

VersionStrings == StringsUpTo(MaxLen) \cup SampleVersions

NoProcess == [process |-> "undefined", versions |-> "undefined", node |-> JSUndefined]
NullProcess == [process |-> "null", versions |-> "undefined", node |-> JSUndefined]

ProcessWith(versions, node) ==
    [process |-> "object", versions |-> versions, node |-> node]

Environments ==
    {NoProcess, NullProcess,
     ProcessWith("undefined", JSUndefined), ProcessWith("null", JSUndefined),
     ProcessWith("object", JSUndefined),
     ProcessWith("object", JSNumber(0)), ProcessWith("object", JSNumber(20))}
    \cup {ProcessWith("object", JSString(s)) : s \in VersionStrings}

----------------------------------------------------------------------------
(* The collaborators: the ws constructor and the transport error base class *)

NoValue == [t |-> "none"]

Urls ==
    { [t |-> "string", href |-> "ws://example.test:80/socket"],
      [t |-> "URL", href |-> "wss://example.test/socket"] }

Protocols ==
    { [t |-> "undefined", v |-> <<>>],
      [t |-> "string", v |-> <<"json">>],
      [t |-> "array", v |-> <<"json", "binary">>] }

Handles == { [t |-> "WebSocket", id |-> 1], [t |-> "WebSocket", id |-> 2] }

InvalidUrl ==
    [t |-> "Error", name |-> "SyntaxError", message |-> "Invalid URL: not-a-valid-url", id |-> 1]
BareError == [t |-> "Error", name |-> "Error", message |-> "", id |-> 2]
ThrownString == [t |-> "string", name |-> "", message |-> "boom", id |-> 0]

ThrownValues == {InvalidUrl, BareError, ThrownString}

\* What one `new WebSocket(url, protocols)` does: it returns a handle or throws.
ConstructorOutcomes ==
    {[t |-> "return", v |-> h] : h \in Handles}
    \cup {[t |-> "throw", v |-> e] : e \in ThrownValues}

\* Error.prototype.toString
ErrorToString(e) ==
    IF e.name = "" THEN e.message
    ELSE IF e.message = "" THEN e.name
    ELSE e.name \o ": " \o e.message

\* The string conversion of a template literal, `${error}`.
ToString(v) ==
    CASE v.t = "string" -> v.message
      [] v.t = "Error" -> ErrorToString(v)

\* class TransportError of ../base.ts: keeps the message and the cause.
TransportError(message, options) ==
    [t |-> "Error", name |-> "TransportError", message |-> message, cause |-> options.cause]

WebSocketCompatibilityError(message, options) ==
    [TransportError(message, options) EXCEPT !.name = "WebSocketCompatibilityError"]

----------------------------------------------------------------------------
(* The exported functions *)

ConstructorCall(url, protocols) == [url |-> url, protocols |-> protocols]

\* The factory without `{ cause: error }`.
createCompatibleWebSocketSyncNoCause(url, protocols, ws) ==
    IF ws.t = "return"
    THEN [ctorArgs |-> <<ConstructorCall(url, protocols)>>,
          result |-> [t |-> "return", v |-> ws.v],
          events |-> <<"new WebSocket", "constructor done">>]
    ELSE [ctorArgs |-> <<ConstructorCall(url, protocols)>>,
          result |-> [t |-> "throw",
                      v |-> WebSocketCompatibilityError(
                                "Failed to create WebSocket: " \o ToString(ws.v),
                                [cause |-> NoValue])],
          events |-> <<"new WebSocket", "constructor done">>]

\* The factory handing the constructor `protocols ?? []`.
createCompatibleWebSocketSyncDefaultProtocols(url, protocols, ws) ==
    LET given == IF protocols.t = "undefined" THEN [t |-> "array", v |-> <<>>]
                 ELSE protocols
    IN  IF ws.t = "return"
        THEN [ctorArgs |-> <<ConstructorCall(url, given)>>,
              result |-> [t |-> "return", v |-> ws.v],
              events |-> <<"new WebSocket", "constructor done">>]
        ELSE [ctorArgs |-> <<ConstructorCall(url, given)>>,
              result |-> [t |-> "throw",
                          v |-> WebSocketCompatibilityError(
                                    "Failed to create WebSocket: " \o ToString(ws.v),
                                    [cause |-> ws.v])],
              events |-> <<"new WebSocket", "constructor done">>]

\* The factory constructing a second time after a failure.
createCompatibleWebSocketSyncRetry(url, protocols, ws) ==
    IF ws.t = "return"
    THEN [ctorArgs |-> <<ConstructorCall(url, protocols)>>,
          result |-> [t |-> "return", v |-> ws.v],
          events |-> <<"new WebSocket", "constructor done">>]
    ELSE [ctorArgs |-> <<ConstructorCall(url, protocols), ConstructorCall(url, protocols)>>,
          result |-> [t |-> "throw",
                      v |-> WebSocketCompatibilityError(
                                "Failed to create WebSocket: " \o ToString(ws.v),
                                [cause |-> ws.v])],
          events |-> <<"new WebSocket", "constructor done",
                       "new WebSocket", "constructor done">>]

\* The factory remembering a failure: after a failed create it throws that
\* failure again without constructing.
createCompatibleWebSocketSyncCached(url, protocols, ws) ==
    IF /\ last.op \in {"createCompatibleWebSocketSync", "createCompatibleWebSocket"}
       /\ last.result.t \in {"throw", "rejected"}
    THEN [ctorArgs |-> <<>>,
          result |-> [t |-> "throw", v |-> last.result.v],
          events |-> <<>>]
    ELSE IF ws.t = "return"
    THEN [ctorArgs |-> <<ConstructorCall(url, protocols)>>,
          result |-> [t |-> "return", v |-> ws.v],
          events |-> <<"new WebSocket", "constructor done">>]
    ELSE [ctorArgs |-> <<ConstructorCall(url, protocols)>>,
          result |-> [t |-> "throw",
                      v |-> WebSocketCompatibilityError(
                                "Failed to create WebSocket: " \o ToString(ws.v),
                                [cause |-> ws.v])],
          events |-> <<"new WebSocket", "constructor done">>]

\* createCompatibleWebSocketSync(url, protocols), where ws is what this call's
\* `new WebSocket(url, protocols)` does.  ctorArgs lists the constructor
\* invocations with the arguments each received; events is the order of the
\* steps.
createCompatibleWebSocketSync(url, protocols, ws) ==
    IF ws.t = "return"
    THEN [ctorArgs |-> <<ConstructorCall(url, protocols)>>,
          result |-> [t |-> "return", v |-> ws.v],
          events |-> <<"new WebSocket", "constructor done">>]
    ELSE [ctorArgs |-> <<ConstructorCall(url, protocols)>>,
          result |-> [t |-> "throw",
                      v |-> WebSocketCompatibilityError(
                                "Failed to create WebSocket: " \o ToString(ws.v),
                                [cause |-> ws.v])],
          events |-> <<"new WebSocket", "constructor done">>]

\* The async factory rejecting with the constructor's own error.
createCompatibleWebSocketUnwrapped(url, protocols, ws) ==
    LET r == createCompatibleWebSocketSync(url, protocols, ws)
    IN  [ctorArgs |-> r.ctorArgs,
         result |-> IF r.result.t = "return"
                    THEN [t |-> "fulfilled", v |-> r.result.v]
                    ELSE [t |-> "rejected", v |-> ws.v],
         events |-> r.events \o <<"promise settled", "return">>]

\* The async factory constructing in a later task: it returns a pending
\* promise first.
createCompatibleWebSocketDeferred(url, protocols, ws) ==
    LET r == createCompatibleWebSocketSync(url, protocols, ws)
    IN  [ctorArgs |-> r.ctorArgs,
         result |-> IF r.result.t = "return"
                    THEN [t |-> "fulfilled", v |-> r.result.v]
                    ELSE [t |-> "rejected", v |-> r.result.v],
         events |-> <<"return">> \o r.events \o <<"promise settled">>]

\* createCompatibleWebSocket(url, protocols): an async function without an
\* await.  Its body runs inside the call; a returned value fulfils the
\* promise and a thrown one rejects it as the body completes, and the call
\* then returns the promise.  Nothing is thrown to the caller.
createCompatibleWebSocket(url, protocols, ws) ==
    LET r == createCompatibleWebSocketSync(url, protocols, ws)
    IN  [ctorArgs |-> r.ctorArgs,
         result |-> IF r.result.t = "return"
                    THEN [t |-> "fulfilled", v |-> r.result.v]
                    ELSE [t |-> "rejected", v |-> r.result.v],
         events |-> r.events \o <<"promise settled", "return">>]

\* A flag that still depends on the host: true outside Node.js.
requiresWsPackageByHost == env.process # "object"

requiresWsPackage == FALSE

\* The record the probe returns.
EnvironmentInfo(isNode, nodeMajorVersion) ==
    [t |-> "return",
     isNode |-> isNode,
     nodeMajorVersion |-> nodeMajorVersion,
     hasReliableNativeWebSocket |-> TRUE,
     requiresWsPackage |-> FALSE]

TypeError == [t |-> "throw", name |-> "TypeError"]

\* globalProcess.versions?.node, for a globalProcess that is an object.
VersionsNode(globalProcess) ==
    IF globalProcess.versions \in {"undefined", "null"} THEN JSUndefined
    ELSE globalProcess.node

\* getWebSocketEnvironmentInfo(), reading globalThis.process from env.
\*   line 69: `typeof null` is "object", so a null process reaches
\*            `globalProcess.versions`, a property read of null: TypeError.
\*   line 70: a truthy node that is no string has no split method: TypeError.
getWebSocketEnvironmentInfo ==
    LET globalProcess == env
    IN  IF globalProcess.process = "null" THEN TypeError
        ELSE LET isNode == IF globalProcess.process = "undefined" THEN JSFalse
                           ELSE VersionsNode(globalProcess)
             IN  IF ~ToBoolean(isNode) THEN EnvironmentInfo(FALSE, NullVersion)
                 ELSE IF isNode.t # "string" THEN TypeError
                 ELSE EnvironmentInfo(TRUE, ParseInt(SplitFirst(isNode.s)))

----------------------------------------------------------------------------
(* Calls *)

NoCall ==
    [op |-> "none", url |-> NoValue, protocols |-> NoValue, ws |-> NoValue,
     ctorArgs |-> <<>>, result |-> NoValue, events |-> <<>>, observed |-> NoValue]

FactoryCall(op, url, protocols, ws, out) ==
    [op |-> op, url |-> url, protocols |-> protocols, ws |-> ws,
     ctorArgs |-> out.ctorArgs, result |-> out.result, events |-> out.events,
     observed |-> NoValue]

PlainCall(op, result) == [NoCall EXCEPT !.op = op, !.result = result]

Summary(call) ==
    [op |-> call.op, threw |-> call.result.t \in {"throw", "rejected"}]

\* The caller awaits each promise: once createCompatibleWebSocket has
\* returned, the continuation is the next job to run.
Awaiting == last.op = "createCompatibleWebSocket" /\ last.observed = NoValue

\* The module keeps no state: loading it leaves only the host's environment,
\* which no function of the module writes and which stays as it is found.
Init ==
    /\ env \in Environments
    /\ last = NoCall
    /\ prior = Summary(NoCall)

CallSync(url, protocols, ws) ==
    /\ ~Awaiting
    /\ last' = FactoryCall("createCompatibleWebSocketSync", url, protocols, ws,
                           createCompatibleWebSocketSync(url, protocols, ws))
    /\ prior' = Summary(last)
    /\ UNCHANGED env

CallAsync(url, protocols, ws) ==
    /\ ~Awaiting
    /\ last' = FactoryCall("createCompatibleWebSocket", url, protocols, ws,
                           createCompatibleWebSocket(url, protocols, ws))
    /\ prior' = Summary(last)
    /\ UNCHANGED env

\* The continuation attached to the promise runs and sees how it settled.
RunContinuation ==
    /\ Awaiting
    /\ last' = [last EXCEPT !.observed = last.result,
                            !.events = Append(@, "continuation")]
    /\ UNCHANGED <<env, prior>>

CallRequiresWsPackage ==
    /\ ~Awaiting
    /\ last' = PlainCall("requiresWsPackage", [t |-> "return", v |-> requiresWsPackage])
    /\ prior' = Summary(last)
    /\ UNCHANGED env

CallGetWebSocketEnvironmentInfo ==
    /\ ~Awaiting
    /\ last' = PlainCall("getWebSocketEnvironmentInfo", getWebSocketEnvironmentInfo)
    /\ prior' = Summary(last)
    /\ UNCHANGED env

Next ==
    \/ \E url \in Urls, protocols \in Protocols, ws \in ConstructorOutcomes :
           CallSync(url, protocols, ws)
    \/ \E url \in Urls, protocols \in Protocols, ws \in ConstructorOutcomes :
           CallAsync(url, protocols, ws)
    \/ RunContinuation
    \/ CallRequiresWsPackage
    \/ CallGetWebSocketEnvironmentInfo

Spec == Init /\ [][Next]_vars

----------------------------------------------------------------------------
(* Properties *)

SyncOp == "createCompatibleWebSocketSync"
AsyncOp == "createCompatibleWebSocket"
InfoOp == "getWebSocketEnvironmentInfo"
RequiresOp == "requiresWsPackage"

\* The text JavaScript gives each value the constructor throws here.
ExpectedText(e) ==
    CASE e = InvalidUrl -> "SyntaxError: Invalid URL: not-a-valid-url"
      [] e = BareError -> "Error"
      [] e = ThrownString -> "boom"

\* C1: when the constructor throws e, createCompatibleWebSocketSync throws a
\* WebSocketCompatibilityError whose message is "Failed to create WebSocket: "
\* followed by the string form of e and whose cause is e; it throws nothing
\* else, and nothing when the constructor returns.
C1_SyncWrapsConstructorFailure ==
    last.op = SyncOp =>
        /\ last.ws.t = "throw" =>
               last.result =
                   [t |-> "throw",
                    v |-> [t |-> "Error",
                           name |-> "WebSocketCompatibilityError",
                           message |-> "Failed to create WebSocket: "
                                           \o ExpectedText(last.ws.v),
                           cause |-> last.ws.v]]
        /\ last.result.t = "throw" =>
               /\ last.ws.t = "throw"
               /\ last.result.v.name = "WebSocketCompatibilityError"

C1_Witness ==
    /\ last.op = SyncOp
    /\ last.ws = [t |-> "throw", v |-> InvalidUrl]
    /\ last.result.t = "throw"

\* C2: when the constructor accepts (url, protocols),
\* createCompatibleWebSocketSync returns the handle the constructor produced,
\* and the constructor received the caller's url and protocols unchanged, an
\* absent protocols included.
C2_SyncReturnsConstructedHandle ==
    (last.op = SyncOp /\ last.ws.t = "return") =>
        /\ last.result = [t |-> "return", v |-> last.ws.v]
        /\ last.ctorArgs # <<>>
        /\ \A i \in 1..Len(last.ctorArgs) :
               last.ctorArgs[i] = [url |-> last.url, protocols |-> last.protocols]

C2_Witness ==
    /\ last.op = SyncOp
    /\ last.ws.t = "return"
    /\ last.protocols.t = "undefined"
    /\ last.result.t = "return"

\* C3: every call of either factory invokes the constructor exactly once,
\* whether the invocation returns or throws.
C3_ExactlyOneConstruction ==
    last.op \in {SyncOp, AsyncOp} =>
        /\ Len(last.ctorArgs) = 1
        /\ Cardinality({i \in 1..Len(last.events) : last.events[i] = "new WebSocket"}) = 1

C3_Witness ==
    /\ last.op = AsyncOp
    /\ last.ws.t = "throw"
    /\ Len(last.ctorArgs) = 1

SameCreateInputs(a, b) ==
    /\ a.url = b.url
    /\ a.protocols = b.protocols
    /\ a.ws = b.ws

\* C4: createCompatibleWebSocket called with the inputs of a preceding
\* createCompatibleWebSocketSync call, the constructor behaving alike, resolves
\* to the handle the sync call returned or rejects with an error equal to the
\* one the sync call threw; it never throws to its caller, and the
\* continuation sees that settlement.
C4_AsyncMatchesSync ==
    [][ /\ (/\ last.op = SyncOp
            /\ last'.op = AsyncOp
            /\ last'.observed = NoValue
            /\ SameCreateInputs(last, last'))
           => /\ last.result.t = "return" =>
                     last'.result = [t |-> "fulfilled", v |-> last.result.v]
              /\ last.result.t = "throw" =>
                     last'.result = [t |-> "rejected", v |-> last.result.v]
        /\ last'.op = AsyncOp => last'.result.t \in {"fulfilled", "rejected"}
        /\ (last'.op = AsyncOp /\ last'.observed # NoValue) =>
               last'.observed = last'.result
      ]_vars

C4_Witness ==
    /\ prior.op = SyncOp
    /\ prior.threw
    /\ last.op = AsyncOp
    /\ last.result.t = "rejected"
    /\ last.result.v.cause = InvalidUrl
    /\ last.observed = last.result

\* C5: in createCompatibleWebSocket the constructor call starts and ends
\* inside the call, before the promise settles; the promise is settled when
\* the call returns, so it is never left pending; a continuation runs only
\* after the call has returned.
C5_ConstructsBeforeSettling ==
    last.op = AsyncOp =>
        /\ last.result.t \in {"fulfilled", "rejected"}
        /\ SubSeq(last.events, 1, 4) =
               <<"new WebSocket", "constructor done", "promise settled", "return">>
        /\ IF last.observed = NoValue
           THEN Len(last.events) = 4
           ELSE last.events[5] = "continuation" /\ Len(last.events) = 5

C5_Witness ==
    /\ last.op = AsyncOp
    /\ last.observed # NoValue
    /\ last.events[Len(last.events)] = "continuation"

\* C6: requiresWsPackage() returns false on every call and in every
\* environment, and every record getWebSocketEnvironmentInfo() returns has
\* hasReliableNativeWebSocket = true and requiresWsPackage = false.
C6_FlagsAreConstant ==
    /\ last.op = RequiresOp => last.result = [t |-> "return", v |-> FALSE]
    /\ (last.op = InfoOp /\ last.result.t = "return") =>
           /\ last.result.hasReliableNativeWebSocket = TRUE
           /\ last.result.requiresWsPackage = FALSE

C6_Witness ==
    /\ prior.op = InfoOp
    /\ ~prior.threw
    /\ last.op = RequiresOp
    /\ last.result.t = "return"
    /\ env.node = JSString(<<"2", "0", ".", "1", ".", "0">>)

\* The leading component is a decimal integer: digits and nothing else.
IsDecimalInteger(c) == c # <<>> /\ \A i \in 1..Len(c) : c[i] \in Digits

\* C7: getWebSocketEnvironmentInfo() returns isNode = true with
\* nodeMajorVersion = the leading integer component of process.versions.node
\* when the process global exposes it, and isNode = false with
\* nodeMajorVersion = null otherwise (no process global, no versions, no node
\* version); isNode is true exactly when nodeMajorVersion is not null.
C7_NodeDetection ==
    last.op = InfoOp =>
        LET exposed == /\ env.process = "object"
                       /\ env.versions = "object"
                       /\ env.node.t = "string"
                       /\ env.node.s # <<>>
            absent == \/ env.process \in {"undefined", "null"}
                      \/ env.versions \in {"undefined", "null"}
                      \/ env.node.t = "undefined"
                      \/ env.node = JSString(<<>>)
        IN  /\ (exposed /\ IsDecimalInteger(SplitFirst(env.node.s))) =>
                   /\ last.result.t = "return"
                   /\ last.result.isNode = TRUE
                   /\ last.result.nodeMajorVersion =
                          IntValue(DecimalValue(SplitFirst(env.node.s)))
            /\ absent =>
                   /\ last.result.t = "return"
                   /\ last.result.isNode = FALSE
                   /\ last.result.nodeMajorVersion = NullVersion
            /\ last.result.t = "return" =>
                   (last.result.isNode <=> last.result.nodeMajorVersion # NullVersion)

HasLeadingDigit(c) ==
    \E k \in 1..Len(c) :
        /\ c[k] \in Digits
        /\ \A j \in 1..(k - 1) :
               \/ c[j] \in WhiteSpace
               \/ j = k - 1 /\ c[j] \in {"-", "+"}

C9_ProbeNeverThrows ==
    last.op = InfoOp =>
        /\ last.result.t = "return"
        /\ {"isNode", "nodeMajorVersion", "hasReliableNativeWebSocket",
            "requiresWsPackage"} \subseteq DOMAIN last.result

FailedCreate(call) ==
    call.op \in {SyncOp, AsyncOp} /\ call.result.t \in {"throw", "rejected"}

\* C10: no call leaves state behind.  No step changes the environment; a call
\* repeated with the same arguments, constructor behaviour and environment
\* invokes the constructor alike and yields an equal result; and a create that
\* follows a failed create returns what its own constructor call produced.
C10_Stateless ==
    [][ /\ env' = env
        /\ (/\ last'.observed = NoValue
            /\ last'.op = last.op
            /\ SameCreateInputs(last, last'))
           => /\ last'.ctorArgs = last.ctorArgs
              /\ last'.result = last.result
        /\ (/\ FailedCreate(last)
            /\ last'.op = SyncOp
            /\ last'.ws.t = "return")
           => /\ last'.result = [t |-> "return", v |-> last'.ws.v]
              /\ Len(last'.ctorArgs) = 1
      ]_vars

C10_Witness ==
    /\ prior.op = SyncOp
    /\ prior.threw
    /\ last.op = SyncOp
    /\ last.result.t = "return"

====
